---- MODULE Spec2Model ----
(***************************************************************************)
(* Model of the image-generation router of DayDreamForge                   *)
(* (src/image_generator.py): the per-requester rate limiter, the three     *)
(* provider adapters (DALL-E, Segmind, Getimg), the result normalizer and  *)
(* the fallback router generate_image_from_prompt, called from several     *)
(* request threads of the Flask server (src/main.py).                      *)
(*                                                                         *)
(* Strings are sequences of one-character strings, so that prefix tests,   *)
(* strip() and the base64 heuristic are computed as the code computes      *)
(* them.  Python's None is the one-element sequence None, whose element is *)
(* not a character.                                                        *)
(***************************************************************************)
EXTENDS Integers, Sequences, FiniteSets, TLC

\* ---------------------------------------------------------------- bounds
\* The clock runs from RATE_LIMIT_SECONDS (any epoch time is at least one
\* window after 0.0, the default of the map) to MaxTime, in steps of
\* TickSeconds.
MaxTime == 20
TickSeconds == 5

\* Request threads of the server and requester ids.
Calls == {"t1", "t2"}
Users == {"global", "alice"}

\* ------------------------------------------------------------- constants
RATE_LIMIT_SECONDS == 10

\* ---------------------------------------------------------------- strings
None == <<"<None>">>

HTTP == <<"h","t","t","p",":","/","/">>
HTTPS == <<"h","t","t","p","s",":","/","/">>
DATA_IMAGE == <<"d","a","t","a",":","i","m","a","g","e","/">>
DATA_PNG_BASE64 ==
    <<"d","a","t","a",":","i","m","a","g","e","/","p","n","g",";",
      "b","a","s","e","6","4",",">>

Whitespace == {" ", "\t", "\n", "\r"}

Alnum ==
    {"a","b","c","d","e","f","g","h","i","j","k","l","m","n","o","p","q",
     "r","s","t","u","v","w","x","y","z",
     "A","B","C","D","E","F","G","H","I","J","K","L","M","N","O","P","Q",
     "R","S","T","U","V","W","X","Y","Z",
     "0","1","2","3","4","5","6","7","8","9"}

\* Python truthiness of an Optional[str]: None and "" are false.
Truthy(x) == x # None /\ x # <<>>

startswith(s, p) == Len(s) >= Len(p) /\ SubSeq(s, 1, Len(p)) = p

RECURSIVE lstrip(_)
lstrip(s) ==
    IF s # <<>> /\ Head(s) \in Whitespace THEN lstrip(Tail(s)) ELSE s

RECURSIVE rstrip(_)
rstrip(s) ==
    IF s # <<>> /\ s[Len(s)] \in Whitespace
    THEN rstrip(SubSeq(s, 1, Len(s) - 1))
    ELSE s

strip(s) == rstrip(lstrip(s))

IsNewline(c) == c = "\n"
NotNewline(c) == ~IsNewline(c)

\* s.replace("\n", "")
RemoveNewlines(s) == SelectSeq(s, NotNewline)

Min(a, b) == IF a < b THEN a ELSE b

\* len(s) > 100 and all(c.isalnum() or c in "+/=\n\r" for c in s[:120])
LooksLikeBase64(s) ==
    /\ Len(s) > 100
    /\ \A i \in 1..Min(Len(s), 120) :
          s[i] \in Alnum \cup {"+", "/", "=", "\n", "\r"}

\* Variant of _ensure_https_or_data_url without the strip() of line 29.
ensure_https_or_data_url_unstripped(x) ==
    IF ~Truthy(x) THEN None
    ELSE IF startswith(x, HTTP)
    THEN HTTPS \o SubSeq(x, Len(HTTP) + 1, Len(x))
    ELSE IF startswith(x, HTTPS) THEN x
    ELSE IF startswith(x, DATA_IMAGE) THEN x
    ELSE IF LooksLikeBase64(x)
    THEN DATA_PNG_BASE64 \o RemoveNewlines(x)
    ELSE x

\* _ensure_https_or_data_url(raw)
ensure_https_or_data_url(x) ==
    IF ~Truthy(x) THEN None
    ELSE LET s == strip(x) IN
         IF startswith(s, HTTP)
         THEN HTTPS \o SubSeq(s, Len(HTTP) + 1, Len(s))
         ELSE IF startswith(s, HTTPS) THEN s
         ELSE IF startswith(s, DATA_IMAGE) THEN s
         ELSE IF LooksLikeBase64(s)
         THEN DATA_PNG_BASE64 \o RemoveNewlines(s)
         ELSE s

\* ------------------------------------------------- what the providers answer
\* Sample strings of the three shapes providers return: an http URL, an
\* https URL, a string that is neither, a bare base64 payload.
URL_HTTP == HTTP \o <<"a">>
URL_HTTPS == HTTPS \o <<"b">>
URL_OTHER == <<"f","t","p",":","/","/","c">>
IMG_B64 == <<"Q","U","J","D">>
IDENTITY_URL == HTTPS \o <<"m","e">>

\* client.images.generate: an exception of one of the classes the code
\* tells apart, or a response whose data[0].url is url (None: no data).
DalleResponses ==
    {[error |-> e, url |-> None] : e \in {"BadRequestError", "OpenAIError"}}
    \cup {[error |-> "none", url |-> u] : u \in {None, URL_HTTP, URL_OTHER}}

\* _url_to_base64: the download of the identity image succeeds or raises.
FetchResults == {"ok", "error"}

\* requests.post to Segmind: a timeout or connection error, or a response
\* with a status code and a JSON body whose image field is image.
SegmindResponses ==
    {[error |-> "timeout", status |-> 0, image |-> None],
     [error |-> "none", status |-> 500, image |-> None],
     [error |-> "none", status |-> 200, image |-> None],
     [error |-> "none", status |-> 200, image |-> IMG_B64]}

\* requests.post to Getimg, likewise; url is image_url or url of the body.
GetimgResponses ==
    {[error |-> "timeout", status |-> 0, url |-> None],
     [error |-> "none", status |-> 500, url |-> None],
     [error |-> "none", status |-> 200, url |-> None],
     [error |-> "none", status |-> 200, url |-> URL_HTTPS]}

\* Outbound requests.
GET_IDENTITY == "GET identity_image_url"
POST_SEGMIND == "POST api.segmind.com"
POST_GETIMG == "POST api.getimg.ai"
POST_OPENAI == "POST api.openai.com"

\* No adapter was invoked yet.
NoReply == [ret |-> None, raised |-> "none", sent |-> <<>>]

\* --------------------------------------------------------------- adapters
\* Each adapter is a function of what the outside answers; it yields the
\* value returned (ret), the exception raised (raised, "none" if none) and
\* the requests it issued (sent).

\* generate_with_dalle(prompt)
generate_with_dalle(resp) ==
    IF resp.error # "none"
    THEN [ret |-> None, raised |-> resp.error, sent |-> <<POST_OPENAI>>]
    ELSE LET url == ensure_https_or_data_url(resp.url) IN
         IF ~Truthy(url)
         THEN [ret |-> None, raised |-> "RuntimeError: DALL-E returned no URL",
               sent |-> <<POST_OPENAI>>]
         ELSE [ret |-> url, raised |-> "none", sent |-> <<POST_OPENAI>>]

\* generate_with_segmind(prompt, identity_image_url)
generate_with_segmind(key, image_url, fetch, resp) ==
    IF ~key
    THEN [ret |-> None, raised |-> "none", sent |-> <<>>]
    ELSE IF ~Truthy(image_url)
    THEN [ret |-> None, raised |-> "none", sent |-> <<>>]
    ELSE IF fetch # "ok"
    THEN [ret |-> None, raised |-> "none", sent |-> <<GET_IDENTITY>>]
    ELSE IF resp.error # "none"
    THEN [ret |-> None, raised |-> "none",
          sent |-> <<GET_IDENTITY, POST_SEGMIND>>]
    ELSE IF resp.status # 200
    THEN [ret |-> None, raised |-> "none",
          sent |-> <<GET_IDENTITY, POST_SEGMIND>>]
    ELSE IF ~Truthy(resp.image)
    THEN [ret |-> None, raised |-> "none",
          sent |-> <<GET_IDENTITY, POST_SEGMIND>>]
    ELSE [ret |-> DATA_PNG_BASE64 \o resp.image, raised |-> "none",
          sent |-> <<GET_IDENTITY, POST_SEGMIND>>]

\* Variant of generate_with_getimg without the test of the key.
generate_with_getimg_unkeyed(key, image_url, resp) ==
    IF ~Truthy(image_url)
    THEN [ret |-> None, raised |-> "none", sent |-> <<>>]
    ELSE IF resp.error # "none"
    THEN [ret |-> None, raised |-> "none", sent |-> <<POST_GETIMG>>]
    ELSE IF resp.status # 200
    THEN [ret |-> None, raised |-> "none", sent |-> <<POST_GETIMG>>]
    ELSE [ret |-> ensure_https_or_data_url(resp.url), raised |-> "none",
          sent |-> <<POST_GETIMG>>]

\* generate_with_getimg(prompt, identity_image_url)
generate_with_getimg(key, image_url, resp) ==
    IF ~key
    THEN [ret |-> None, raised |-> "none", sent |-> <<>>]
    ELSE IF ~Truthy(image_url)
    THEN [ret |-> None, raised |-> "none", sent |-> <<>>]
    ELSE IF resp.error # "none"
    THEN [ret |-> None, raised |-> "none", sent |-> <<POST_GETIMG>>]
    ELSE IF resp.status # 200
    THEN [ret |-> None, raised |-> "none", sent |-> <<POST_GETIMG>>]
    ELSE [ret |-> ensure_https_or_data_url(resp.url), raised |-> "none",
          sent |-> <<POST_GETIMG>>]

\* ------------------------------------------------------------------ state
VARIABLES
    clock,               \* time.time(), in seconds
    last_request_time,   \* requester id -> time of the last recorded call
    SEGMIND_API_KEY,     \* TRUE iff the key is configured
    GETIMG_API_KEY,      \* TRUE iff the key is configured
    pc,                  \* thread -> position in generate_image_from_prompt
    user_id,             \* thread -> argument user_id
    identity_image_url,  \* thread -> argument identity_image_url
    high_quality,        \* thread -> argument high_quality
    now,                 \* thread -> local variable now
    attempts,            \* thread -> adapters invoked by the call, in order
    reply,               \* thread -> what the adapter the call invoked last
                         \*           did: value returned, exception raised,
                         \*           outbound HTTP requests sent
    outcome,             \* thread -> "pending", "returned" or the error
    result,              \* thread -> value returned (None while there is none)
    raw,                 \* argument of _ensure_https_or_data_url called alone
    normalized,          \* what its successive applications returned
    admitted_at          \* history: requester id -> the latest now among the
                         \*          calls that executed line 66 for it

vars == <<clock, last_request_time, SEGMIND_API_KEY, GETIMG_API_KEY, pc,
          user_id, identity_image_url, high_quality, now, attempts, reply,
          outcome, result, raw, normalized, admitted_at>>

\* ------------------------------------------------------------------- Init
\* The module is imported: the map is empty (every requester reads 0.0),
\* the keys are whatever the environment holds, no request is in flight.
Init ==
    /\ clock = RATE_LIMIT_SECONDS
    /\ last_request_time = [u \in Users |-> 0]
    /\ SEGMIND_API_KEY \in BOOLEAN
    /\ GETIMG_API_KEY \in BOOLEAN
    /\ pc = [p \in Calls |-> "idle"]
    /\ user_id = [p \in Calls |-> "global"]
    /\ identity_image_url = [p \in Calls |-> None]
    /\ high_quality = [p \in Calls |-> FALSE]
    /\ now = [p \in Calls |-> 0]
    /\ attempts = [p \in Calls |-> <<>>]
    /\ reply = [p \in Calls |-> NoReply]
    /\ outcome = [p \in Calls |-> "pending"]
    /\ result = [p \in Calls |-> None]
    /\ raw = None
    /\ normalized = <<>>
    /\ admitted_at = [u \in Users |-> 0]

\* ---------------------------------------------------------------- helpers
config == <<SEGMIND_API_KEY, GETIMG_API_KEY>>
normalizer == <<raw, normalized>>
args == <<user_id, identity_image_url, high_quality>>

\* Variant of Invoke that calls the adapter a second time.
InvokeWithRetry(p, name, r) ==
    /\ attempts' = [attempts EXCEPT ![p] = Append(Append(@, name), name)]
    /\ reply' = [reply EXCEPT ![p] = r]

\* The call of thread p invokes adapter name, which behaves as r.
Invoke(p, name, r) ==
    /\ attempts' = [attempts EXCEPT ![p] = Append(@, name)]
    /\ reply' = [reply EXCEPT ![p] = r]

\* The call of thread p returns url.
Return(p, url) ==
    /\ pc' = [pc EXCEPT ![p] = "done"]
    /\ outcome' = [outcome EXCEPT ![p] = "returned"]
    /\ result' = [result EXCEPT ![p] = url]

\* The call of thread p raises error.
Raise(p, error) ==
    /\ pc' = [pc EXCEPT ![p] = "done"]
    /\ outcome' = [outcome EXCEPT ![p] = error]
    /\ UNCHANGED result

\* The call of thread p goes on at label.
Goto(p, label) ==
    /\ pc' = [pc EXCEPT ![p] = label]
    /\ UNCHANGED <<outcome, result>>

\* The two errors the router raises itself.  The message of line 65 also
\* carries the whole seconds left to wait, which nothing reads.
RATE_LIMIT_ERROR == "RuntimeError: Rate limit"
ALL_PROVIDERS_FAILED == "RuntimeError: All providers failed (DALL-E, Segmind, Getimg)."

\* ---------------------------------------------------------------- actions
\* time.time() advances.
Tick ==
    /\ clock + TickSeconds <= MaxTime
    /\ clock' = clock + TickSeconds
    /\ UNCHANGED <<last_request_time, config, pc, args, now, attempts, reply,
                   outcome, result>>
    /\ UNCHANGED <<normalizer, admitted_at>>

\* A request thread enters generate_image_from_prompt and reads the clock
\* (line 61).
Call(p, u, img, hq) ==
    /\ pc[p] \in {"idle", "done"}
    /\ pc' = [pc EXCEPT ![p] = "check"]
    /\ user_id' = [user_id EXCEPT ![p] = u]
    /\ identity_image_url' = [identity_image_url EXCEPT ![p] = img]
    /\ high_quality' = [high_quality EXCEPT ![p] = hq]
    /\ now' = [now EXCEPT ![p] = clock]
    /\ attempts' = [attempts EXCEPT ![p] = <<>>]
    /\ reply' = [reply EXCEPT ![p] = NoReply]
    /\ outcome' = [outcome EXCEPT ![p] = "pending"]
    /\ result' = [result EXCEPT ![p] = None]
    /\ UNCHANGED <<clock, last_request_time, config>>
    /\ UNCHANGED <<normalizer, admitted_at>>

\* Variant of the test of line 62 with <= for <.
RateLimitedInclusive(p) ==
    now[p] - last_request_time[user_id[p]] <= RATE_LIMIT_SECONDS

\* The test of line 62, and the raise of lines 63-65 when it holds.
RateLimited(p) ==
    now[p] - last_request_time[user_id[p]] < RATE_LIMIT_SECONDS

CheckRateLimit(p) ==
    /\ pc[p] = "check"
    /\ IF RateLimited(p)
       THEN /\ Raise(p, RATE_LIMIT_ERROR)
            /\ now' = [now EXCEPT ![p] = 0]
       ELSE /\ Goto(p, "record")
            /\ UNCHANGED now
    /\ UNCHANGED <<clock, last_request_time, config, args, attempts, reply>>
    /\ UNCHANGED <<normalizer, admitted_at>>

\* Variants of the branch of line 74 that overlook one of its two operands,
\* or the test itself.
prefer_segmind_ignoring_image(p) == high_quality[p]
prefer_segmind_ignoring_quality(p) == Truthy(identity_image_url[p])
prefer_segmind_always(p) == TRUE

\* The branch of line 74.
prefer_segmind(p) == Truthy(identity_image_url[p]) \/ high_quality[p]

\* Variant of line 66 that keeps one time for all requesters.
RecordRequestTimeShared(p) ==
    /\ pc[p] = "record"
    /\ last_request_time' = [u \in Users |-> now[p]]
    /\ now' = [now EXCEPT ![p] = 0]
    /\ Goto(p, IF prefer_segmind(p) THEN "segmind_first" ELSE "dalle_first")
    /\ UNCHANGED <<clock, config, args, attempts, reply>>
    /\ UNCHANGED normalizer
    /\ admitted_at' = [u \in Users |-> now[p]]

\* Line 66, then the branch of line 74.  The local now is not read after
\* line 66 and is dropped here; admitted_at remembers the latest now
\* written so far.
RecordRequestTime(p) ==
    /\ pc[p] = "record"
    /\ last_request_time' =
           [last_request_time EXCEPT ![user_id[p]] = now[p]]
    /\ now' = [now EXCEPT ![p] = 0]
    /\ Goto(p, IF prefer_segmind(p) THEN "segmind_first" ELSE "dalle_first")
    /\ UNCHANGED <<clock, config, args, attempts, reply>>
    /\ UNCHANGED normalizer
    /\ admitted_at' =
           [admitted_at EXCEPT ![user_id[p]] = IF now[p] > @ THEN now[p] ELSE @]

\* Lines 76-83: Segmind first; an exception is caught like a None.
SegmindFirst(p) ==
    /\ pc[p] = "segmind_first"
    /\ \E fetch \in FetchResults, resp \in SegmindResponses :
         LET r == generate_with_segmind(SEGMIND_API_KEY,
                                        identity_image_url[p], fetch, resp)
         IN /\ Invoke(p, "Segmind", r)
            /\ IF r.raised = "none" /\ Truthy(r.ret)
               THEN Return(p, r.ret)
               ELSE Goto(p, "getimg_second")
    /\ UNCHANGED <<clock, last_request_time, config, args, now>>
    /\ UNCHANGED <<normalizer, admitted_at>>

\* Lines 85-92: Getimg second; an exception is caught like a None.
GetimgSecond(p) ==
    /\ pc[p] = "getimg_second"
    /\ \E resp \in GetimgResponses :
         LET r == generate_with_getimg(GETIMG_API_KEY,
                                       identity_image_url[p], resp)
         IN /\ Invoke(p, "Getimg", r)
            /\ IF r.raised = "none" /\ Truthy(r.ret)
               THEN Return(p, r.ret)
               ELSE Goto(p, "dalle_last")
    /\ UNCHANGED <<clock, last_request_time, config, args, now>>
    /\ UNCHANGED <<normalizer, admitted_at>>

\* Line 94: DALL-E last; what it returns or raises is what the call
\* returns or raises.
DalleLast(p) ==
    /\ pc[p] = "dalle_last"
    /\ \E resp \in DalleResponses :
         LET r == generate_with_dalle(resp)
         IN /\ Invoke(p, "DALL-E", r)
            /\ IF r.raised = "none"
               THEN Return(p, r.ret)
               ELSE Raise(p, r.raised)
    /\ UNCHANGED <<clock, last_request_time, config, args, now>>
    /\ UNCHANGED <<normalizer, admitted_at>>

\* Variant of lines 98-105 that lets the exception of DALL-E through.
DalleFirstAborting(p) ==
    /\ pc[p] = "dalle_first"
    /\ \E resp \in DalleResponses :
         LET r == generate_with_dalle(resp)
         IN /\ Invoke(p, "DALL-E", r)
            /\ IF r.raised = "none"
               THEN Return(p, r.ret)
               ELSE Raise(p, r.raised)
    /\ UNCHANGED <<clock, last_request_time, config, args, now>>
    /\ UNCHANGED <<normalizer, admitted_at>>

\* Lines 98-105: DALL-E first; every exception is caught.
DalleFirst(p) ==
    /\ pc[p] = "dalle_first"
    /\ \E resp \in DalleResponses :
         LET r == generate_with_dalle(resp)
         IN /\ Invoke(p, "DALL-E", r)
            /\ IF r.raised = "none"
               THEN Return(p, r.ret)
               ELSE Goto(p, "segmind_second")
    /\ UNCHANGED <<clock, last_request_time, config, args, now>>
    /\ UNCHANGED <<normalizer, admitted_at>>

\* Lines 107-113: Segmind second; an exception is caught like a None.
SegmindSecond(p) ==
    /\ pc[p] = "segmind_second"
    /\ \E fetch \in FetchResults, resp \in SegmindResponses :
         LET r == generate_with_segmind(SEGMIND_API_KEY,
                                        identity_image_url[p], fetch, resp)
         IN /\ Invoke(p, "Segmind", r)
            /\ IF r.raised = "none" /\ Truthy(r.ret)
               THEN Return(p, r.ret)
               ELSE Goto(p, "getimg_last")
    /\ UNCHANGED <<clock, last_request_time, config, args, now>>
    /\ UNCHANGED <<normalizer, admitted_at>>

\* Lines 115-120: Getimg last, outside any try, then the error of line 120.
GetimgLast(p) ==
    /\ pc[p] = "getimg_last"
    /\ \E resp \in GetimgResponses :
         LET r == generate_with_getimg(GETIMG_API_KEY,
                                       identity_image_url[p], resp)
         IN /\ Invoke(p, "Getimg", r)
            /\ IF r.raised # "none"
               THEN Raise(p, r.raised)
               ELSE IF Truthy(r.ret)
               THEN Return(p, r.ret)
               ELSE Raise(p, ALL_PROVIDERS_FAILED)
    /\ UNCHANGED <<clock, last_request_time, config, args, now>>
    /\ UNCHANGED <<normalizer, admitted_at>>

Next ==
    \/ Tick
    \/ \E p \in Calls, u \in Users, img \in {None, IDENTITY_URL},
          hq \in BOOLEAN : Call(p, u, img, hq)
    \/ \E p \in Calls : CheckRateLimit(p)
    \/ \E p \in Calls : RecordRequestTime(p)
    \/ \E p \in Calls : SegmindFirst(p)
    \/ \E p \in Calls : GetimgSecond(p)
    \/ \E p \in Calls : DalleLast(p)
    \/ \E p \in Calls : DalleFirst(p)
    \/ \E p \in Calls : SegmindSecond(p)
    \/ \E p \in Calls : GetimgLast(p)

Spec == Init /\ [][Next]_vars

TypeOK ==
    /\ clock \in RATE_LIMIT_SECONDS..MaxTime
    /\ \A u \in Users : last_request_time[u] \in 0..MaxTime
    /\ \A p \in Calls : now[p] <= clock

\* ------------------------------------------------- the normalizer alone
\* _ensure_https_or_data_url as a function of its argument: the argument is
\* any Optional[str], and the function is applied to it, then to what it
\* returned.

MaxApplications == 2

Repeat(c, n) == [i \in 1..n |-> c]

\* Leading and trailing padding, schemes and bodies of short arguments.
Pads == {<<>>, <<" ">>, <<"\n">>}
Schemes == {<<>>, HTTP, HTTPS, DATA_IMAGE, <<"f","t","p",":","/","/">>}
Bodies == {<<>>, <<"a">>, <<"a"," ","b">>}

\* Arguments around the length and the prefix the base64 heuristic tests.
LongInputs ==
    {Repeat("A", 100),
     Repeat("A", 101),
     Repeat("A", 60) \o <<"\n">> \o Repeat("B", 60),
     <<" ">> \o Repeat("A", 101) \o <<"\n">>,
     Repeat("A", 50) \o <<"-">> \o Repeat("A", 60),
     Repeat("A", 120) \o <<"-">>}

RawInputs ==
    {None}
    \cup {lead \o scheme \o body \o trail :
             lead \in Pads, scheme \in Schemes, body \in Bodies,
             trail \in Pads}
    \cup LongInputs

router == <<clock, last_request_time, SEGMIND_API_KEY, GETIMG_API_KEY, pc,
            user_id, identity_image_url, high_quality, now, attempts, reply,
            outcome, result>>

NormalizerInit ==
    /\ raw \in RawInputs
    /\ normalized = <<>>
    /\ admitted_at = [u \in Users |-> 0]
    /\ clock = RATE_LIMIT_SECONDS
    /\ last_request_time = [u \in Users |-> 0]
    /\ SEGMIND_API_KEY = FALSE
    /\ GETIMG_API_KEY = FALSE
    /\ pc = [p \in Calls |-> "idle"]
    /\ user_id = [p \in Calls |-> "global"]
    /\ identity_image_url = [p \in Calls |-> None]
    /\ high_quality = [p \in Calls |-> FALSE]
    /\ now = [p \in Calls |-> 0]
    /\ attempts = [p \in Calls |-> <<>>]
    /\ reply = [p \in Calls |-> NoReply]
    /\ outcome = [p \in Calls |-> "pending"]
    /\ result = [p \in Calls |-> None]

\* The function is applied to raw, then to its own result.
Normalize ==
    /\ Len(normalized) < MaxApplications
    /\ normalized' =
           Append(normalized,
                  ensure_https_or_data_url(
                      IF normalized = <<>> THEN raw
                      ELSE normalized[Len(normalized)]))
    /\ UNCHANGED <<raw, router, admitted_at>>

NormalizerNext == Normalize

NormalizerSpec == NormalizerInit /\ [][NormalizerNext]_vars

\* ---------------------------------------------------------- the HTTP layer
\* The two routes of src/main.py that call the router, each in a request
\* thread of its own.  Both pass the prompt and the identity image only:
\* user_id and high_quality take their defaults, "global" and False.

\* POST /generate-image with a prompt; identity_image_url is optional.
generate_image(p, img) == Call(p, "global", img, FALSE)

\* POST /chat with an image_url: the image branch.
chat(p, img) == Truthy(img) /\ Call(p, "global", img, FALSE)

\* The status of the response: both routes answer 200 with what the router
\* returned and 500 with str(e) when it raised; /generate-image answers 500
\* also when the value returned is empty.
HttpStatus(o, url) == IF o = "returned" /\ Truthy(url) THEN 200 ELSE 500

HttpNext ==
    \/ Tick
    \/ \E p \in Calls, img \in {None, IDENTITY_URL} : generate_image(p, img)
    \/ \E p \in Calls, img \in {None, IDENTITY_URL} : chat(p, img)
    \/ \E p \in Calls : CheckRateLimit(p)
    \/ \E p \in Calls : RecordRequestTime(p)
    \/ \E p \in Calls : SegmindFirst(p)
    \/ \E p \in Calls : GetimgSecond(p)
    \/ \E p \in Calls : DalleLast(p)
    \/ \E p \in Calls : DalleFirst(p)
    \/ \E p \in Calls : SegmindSecond(p)
    \/ \E p \in Calls : GetimgLast(p)

HttpSpec == Init /\ [][HttpNext]_vars

\* ================================================================ claims
IDENTITY_ORDER == <<"Segmind", "Getimg", "DALL-E">>
DEFAULT_ORDER == <<"DALL-E", "Segmind", "Getimg">>

IsPrefix(s, t) == Len(s) <= Len(t) /\ SubSeq(t, 1, Len(s)) = s

\* The call of thread p passed the rate limiter.
Admitted(p) ==
    pc[p] \notin {"idle", "check"} /\ outcome[p] # RATE_LIMIT_ERROR

\* The adapter invoked last by the call of thread p gave a usable result.
Usable(p) == reply[p].raised = "none" /\ Truthy(reply[p].ret)

\* C1: in an admitted call with an identity image, the adapters invoked
\* are a prefix of [Segmind, Getimg, DALL-E]; the call ends as soon as an
\* adapter gave a usable result, and not before unless all three were
\* invoked.
C1_IdentityOrder ==
    \A p \in Calls :
        Admitted(p) /\ Truthy(identity_image_url[p]) =>
            /\ IsPrefix(attempts[p], IDENTITY_ORDER)
            /\ Usable(p) => pc[p] = "done" /\ outcome[p] = "returned"
            /\ pc[p] = "done" /\ ~Usable(p) => attempts[p] = IDENTITY_ORDER

\* A call with an identity image ended at Getimg, the first adapter with a
\* usable result.
C1_Witness ==
    \E p \in Calls :
        /\ Truthy(identity_image_url[p])
        /\ pc[p] = "done" /\ outcome[p] = "returned"
        /\ attempts[p] = <<"Segmind", "Getimg">>

\* C2: in an admitted call with no identity image and high_quality false,
\* the adapters invoked are a prefix of [DALL-E, Segmind, Getimg]; Segmind
\* is invoked only after DALL-E raised, Getimg only after DALL-E and
\* Segmind gave nothing usable.
C2_DefaultOrder ==
    \A p \in Calls :
        Admitted(p) /\ ~Truthy(identity_image_url[p]) /\ ~high_quality[p] =>
            /\ IsPrefix(attempts[p], DEFAULT_ORDER)
            /\ pc[p] # "done" /\ attempts[p] # <<>> => ~Usable(p)
            /\ pc[p] # "done" /\ attempts[p] = <<"DALL-E">> =>
                   reply[p].raised # "none"

\* A default call invoked all three adapters in the default order.
C2_Witness ==
    \E p \in Calls :
        /\ ~Truthy(identity_image_url[p]) /\ ~high_quality[p]
        /\ pc[p] = "done"
        /\ attempts[p] = DEFAULT_ORDER

\* C3: a call that arrives less than RATE_LIMIT_SECONDS after the last
\* admitted call of the same requester (recorded already, or admitted by
\* the test of line 62 and about to be recorded) fails with the rate-limit
\* error, and a call that fails so has invoked no adapter.
C3_RateLimitedNoProvider ==
    [][\A p \in Calls :
          /\ pc[p] = "check" /\ pc'[p] # "check"
          /\ \/ now[p] - last_request_time[user_id[p]] < RATE_LIMIT_SECONDS
             \/ \E q \in Calls \ {p} :
                   /\ pc[q] = "record" /\ user_id[q] = user_id[p]
                   /\ now[q] <= now[p]
                   /\ now[p] - now[q] < RATE_LIMIT_SECONDS
          => /\ outcome'[p] = RATE_LIMIT_ERROR
             /\ attempts'[p] = <<>>]_vars

\* C4: a rejected call leaves the map as it is, an admitted call records
\* its own now for its requester, nothing else changes the map, and a call
\* whose now is at least RATE_LIMIT_SECONDS after the recorded time is
\* admitted.
C4_RecordOnlyWhenAdmitted ==
    [][/\ \A p \in Calls :
             /\ pc[p] = "check" /\ outcome'[p] = RATE_LIMIT_ERROR =>
                    last_request_time' = last_request_time
             /\ pc[p] = "record" /\ pc'[p] # "record" =>
                    last_request_time' =
                        [last_request_time EXCEPT ![user_id[p]] = now[p]]
             /\ /\ pc[p] = "check" /\ pc'[p] # "check"
                /\ now[p] - last_request_time[user_id[p]] >=
                       RATE_LIMIT_SECONDS
                => pc'[p] = "record" /\ outcome'[p] = "pending"
       /\ last_request_time' # last_request_time =>
              \E p \in Calls : pc[p] = "record" /\ pc'[p] # "record"]_vars

\* A call was rejected, the map still holds the earlier time, and a later
\* call of the same requester, a full window after that time, is admitted.
C4_Witness ==
    \E p, q \in Calls :
        /\ outcome[p] = RATE_LIMIT_ERROR
        /\ user_id[p] = user_id[q]
        /\ pc[q] = "record"
        /\ last_request_time[user_id[q]] > 0
        /\ now[q] - last_request_time[user_id[q]] = RATE_LIMIT_SECONDS

\* C5: of two calls of the same requester whose times are less than
\* RATE_LIMIT_SECONDS apart, at most one passes the test of line 62.
C5_AtMostOneAdmitted ==
    \A p, q \in Calls :
        /\ p # q /\ user_id[p] = user_id[q]
        /\ pc[p] = "record" /\ pc[q] = "record"
        => \/ now[p] - now[q] >= RATE_LIMIT_SECONDS
           \/ now[q] - now[p] >= RATE_LIMIT_SECONDS

\* C6: a call in which all three adapters were invoked and none gave a
\* usable result fails with the all-providers-failed error and no other.
C6_AllProvidersFailed ==
    \A p \in Calls :
        pc[p] = "done" /\ Len(attempts[p]) = 3 /\ outcome[p] # "returned"
            => outcome[p] = ALL_PROVIDERS_FAILED

\* C7: in an admitted call with no identity image and high_quality true,
\* Segmind and then Getimg are invoked, send nothing and return None, then
\* DALL-E is invoked, and when DALL-E succeeds its result is returned.
C7_FallThroughToDalle ==
    \A p \in Calls :
        Admitted(p) /\ ~Truthy(identity_image_url[p]) /\ high_quality[p] =>
            /\ IsPrefix(attempts[p], IDENTITY_ORDER)
            /\ Len(attempts[p]) \in {1, 2} =>
                   pc[p] # "done" /\ reply[p] = NoReply
            /\ pc[p] = "done" =>
                   /\ attempts[p] = IDENTITY_ORDER
                   /\ reply[p].raised = "none" =>
                          /\ outcome[p] = "returned"
                          /\ result[p] = reply[p].ret
                          /\ Truthy(result[p])

\* A high-quality call without identity image returned what DALL-E gave.
C7_Witness ==
    \E p \in Calls :
        /\ ~Truthy(identity_image_url[p]) /\ high_quality[p]
        /\ pc[p] = "done" /\ outcome[p] = "returned"
        /\ attempts[p] = IDENTITY_ORDER

NoDuplicates(s) == \A i, j \in 1..Len(s) : s[i] = s[j] => i = j

\* C8: a call invokes no adapter twice; once an adapter gave a usable
\* result the call is over and that result is the value returned.
C8_AtMostOnceAndStop ==
    \A p \in Calls :
        /\ NoDuplicates(attempts[p])
        /\ Usable(p) =>
               /\ pc[p] = "done" /\ outcome[p] = "returned"
               /\ result[p] = reply[p].ret
        /\ outcome[p] = "returned" => Usable(p)

\* A call returned the result of the second adapter it invoked.
C8_Witness ==
    \E p \in Calls :
        /\ Len(attempts[p]) = 2
        /\ outcome[p] = "returned"
        /\ Truthy(result[p])

Last(s) == s[Len(s)]

\* C9: Segmind and Getimg, invoked without their key or without identity
\* image, return None, raise nothing and send no request.
C9_PreconditionNoRequest ==
    \A p \in Calls :
        attempts[p] # <<>> =>
            /\ /\ Last(attempts[p]) = "Segmind"
               /\ ~SEGMIND_API_KEY \/ ~Truthy(identity_image_url[p])
               => reply[p] = NoReply
            /\ /\ Last(attempts[p]) = "Getimg"
               /\ ~GETIMG_API_KEY \/ ~Truthy(identity_image_url[p])
               => reply[p] = NoReply

\* Getimg was invoked with an identity image and without its key; Segmind,
\* which has its key, had sent requests before.
C9_Witness ==
    \E p \in Calls :
        /\ attempts[p] = <<"Segmind", "Getimg">>
        /\ Truthy(identity_image_url[p])
        /\ SEGMIND_API_KEY /\ ~GETIMG_API_KEY
        /\ reply[p] = NoReply

DATA == <<"d","a","t","a",":">>

IsCanonical(s) == startswith(s, HTTPS) \/ startswith(s, DATA)

\* C10: what an adapter hands on from the normalizer is None or begins
\* with https:// or data:, and so does every value a call returns.
C10_CanonicalForms ==
    \A p \in Calls :
        /\ reply[p].ret = None \/ IsCanonical(reply[p].ret)
        /\ outcome[p] = "returned" => IsCanonical(result[p])

\* A string that begins with https:// or data:image/.
IsCanonicalImage(s) == startswith(s, HTTPS) \/ startswith(s, DATA_IMAGE)

\* C11 as stated: an argument that begins with https:// or data:image/ is
\* returned unchanged, and a second application returns what the first
\* returned whenever that begins with https:// or data:image/.
C11_IdempotentOnCanonical ==
    /\ Len(normalized) >= 1 /\ IsCanonicalImage(raw) => normalized[1] = raw
    /\ \A i \in 1..(Len(normalized) - 1) :
           IsCanonicalImage(normalized[i]) => normalized[i + 1] = normalized[i]

\* C11, amended: an argument that begins with https:// or data:image/ is
\* returned with its trailing whitespace stripped (unchanged when it has
\* none), and a second application returns what the first returned
\* whenever that begins with https:// or data:image/.
C11_IdempotentOnStripped ==
    /\ Len(normalized) >= 1 /\ IsCanonicalImage(raw) =>
           /\ normalized[1] = rstrip(raw)
           /\ raw = rstrip(raw) => normalized[1] = raw
    /\ \A i \in 1..(Len(normalized) - 1) :
           IsCanonicalImage(normalized[i]) => normalized[i + 1] = normalized[i]

\* The function was applied twice to an argument that begins with
\* https:// and ends with whitespace.
C11_Witness ==
    /\ Len(normalized) >= 2
    /\ startswith(raw, HTTPS)
    /\ raw # rstrip(raw)
    /\ IsCanonicalImage(normalized[1])

\* C12: a step of a call for requester A, admitted or rejected, leaves the
\* time recorded for every other requester as it is, and the test of a
\* call for requester B passes exactly when the call's now is at least
\* RATE_LIMIT_SECONDS after the time recorded for B, whatever is recorded
\* for the others.
C12_IndependentRequesters ==
    [][\A p \in Calls :
          /\ pc'[p] # pc[p] =>
                 \A u \in Users \ {user_id'[p]} :
                     last_request_time'[u] = last_request_time[u]
          /\ pc[p] = "check" /\ pc'[p] # "check" =>
                 /\ pc'[p] = "record" <=>
                        now[p] - last_request_time[user_id[p]] >=
                            RATE_LIMIT_SECONDS
                 /\ outcome'[p] = RATE_LIMIT_ERROR <=>
                        now[p] - last_request_time[user_id[p]] <
                            RATE_LIMIT_SECONDS]_vars

\* A call of alice was rejected within her window while a call of global,
\* made no earlier, was admitted and recorded; each requester has a
\* recorded time of its own.
C12_Witness ==
    \E p, q \in Calls :
        /\ user_id[p] = "alice" /\ outcome[p] = RATE_LIMIT_ERROR
        /\ user_id[q] = "global" /\ Admitted(q) /\ pc[q] # "record"
        /\ last_request_time["global"] > last_request_time["alice"]
        /\ last_request_time["alice"] > 0

\* The order line 74 chooses for the call of thread p.
ComputedOrder(p) == IF prefer_segmind(p) THEN IDENTITY_ORDER ELSE DEFAULT_ORDER

\* C13: a call goes on to a further adapter only when the adapter invoked
\* before gave nothing usable; it ends with an error other than the
\* rate-limit error only when all adapters of its order were invoked and
\* the last gave nothing usable either; and when DALL-E, invoked first,
\* raises BadRequestError the call stays pending and invokes Segmind next.
C13_NonFinalFailureSwallowed ==
    [][\A p \in Calls :
          /\ Len(attempts'[p]) > Len(attempts[p]) /\ attempts[p] # <<>> =>
                 ~Usable(p)
          /\ outcome'[p] \notin {"pending", "returned", RATE_LIMIT_ERROR} =>
                 /\ attempts'[p] = ComputedOrder(p)
                 /\ ~(reply'[p].raised = "none" /\ Truthy(reply'[p].ret))
          /\ pc[p] = "dalle_first" /\ reply'[p].raised = "BadRequestError" =>
                 pc'[p] = "segmind_second" /\ outcome'[p] = "pending"
          /\ pc[p] = "segmind_second" /\ pc'[p] # "segmind_second" =>
                 attempts'[p] = <<"DALL-E", "Segmind">>]_vars

\* DALL-E, invoked first, raised BadRequestError; the call is pending and
\* about to invoke Segmind.
C13_Witness ==
    \E p \in Calls :
        /\ ~prefer_segmind(p)
        /\ attempts[p] = <<"DALL-E">>
        /\ reply[p].raised = "BadRequestError"
        /\ pc[p] = "segmind_second"
        /\ outcome[p] = "pending"

\* What generate_with_segmind reports to its caller: the value returned and
\* the exception raised.
Reported(p) == <<reply[p].ret, reply[p].raised>>

\* C14: what Segmind reports after the fetch of the identity image failed
\* (a Failure) differs from what it reports when it was invoked without
\* identity image (a NoResult).
C14_FailureDistinctFromNoResult ==
    \A p, q \in Calls :
        /\ attempts[p] # <<>> /\ Last(attempts[p]) = "Segmind"
        /\ reply[p].sent = <<GET_IDENTITY>>
        /\ attempts[q] # <<>> /\ Last(attempts[q]) = "Segmind"
        /\ ~Truthy(identity_image_url[q])
        => Reported(p) # Reported(q)

\* C15: adapters are invoked only by a call that has recorded its time, and
\* leave the map as it is; a call records its now before it invoked any
\* adapter; and whatever became of the calls admitted so far, a call that
\* arrives less than RATE_LIMIT_SECONDS after the latest of their times is
\* rejected and invokes no adapter.
C15_CooldownConsumed ==
    [][\A p \in Calls :
          /\ attempts'[p] # attempts[p] /\ attempts'[p] # <<>> =>
                 /\ pc[p] \notin {"idle", "check", "record", "done"}
                 /\ last_request_time' = last_request_time
          /\ pc[p] = "record" /\ pc'[p] # "record" =>
                 /\ attempts[p] = <<>>
                 /\ last_request_time'[user_id[p]] = now[p]
          /\ /\ pc[p] = "check" /\ pc'[p] # "check"
             /\ now[p] - admitted_at[user_id[p]] < RATE_LIMIT_SECONDS
             => /\ outcome'[p] = RATE_LIMIT_ERROR
                /\ attempts'[p] = <<>>]_vars

\* C16: every call the HTTP layer makes has user_id "global" and
\* high_quality false; and a request that arrives less than
\* RATE_LIMIT_SECONDS after another request was admitted (its time
\* recorded already, or admitted by the test of line 62 and about to be
\* recorded) ends in the rate-limit error, answered with status 500, and
\* has invoked no adapter.
C16_SharedGlobalBucket ==
    [][\A p \in Calls :
          /\ pc[p] # "check" /\ pc'[p] = "check" =>
                 user_id'[p] = "global" /\ high_quality'[p] = FALSE
          /\ /\ pc[p] = "check" /\ pc'[p] # "check"
             /\ \/ now[p] - admitted_at["global"] < RATE_LIMIT_SECONDS
                \/ \E q \in Calls \ {p} :
                      /\ pc[q] = "record"
                      /\ now[q] <= now[p]
                      /\ now[p] - now[q] < RATE_LIMIT_SECONDS
             => /\ outcome'[p] = RATE_LIMIT_ERROR
                /\ HttpStatus(outcome'[p], result'[p]) = 500
                /\ attempts'[p] = <<>>]_vars

====
